---- MODULE Spec2Model ----
(***************************************************************************)
(* Model of the random-image HTTP server.                                  *)
(*                                                                         *)
(*   src/main.go            the current handler: referer check, CORS,      *)
(*                          cache headers, directory listing, extension    *)
(*                          filter, random pick, redirect or direct serve  *)
(*   src/unnamed/part_001   the revision that keeps the process-wide       *)
(*                          lastFileName and re-draws until the pick       *)
(*                          differs from it                                *)
(*                                                                         *)
(* File names are sequences of one-character strings so that filepath.Ext  *)
(* is computed, character by character, as the library computes it.        *)
(***************************************************************************)
EXTENDS Integers, Sequences, FiniteSets, TLC

VARIABLES
    config,        \* the *Config loaded once by main
    req,           \* the request being handled (main.go handler)
    fsys,          \* what os.ReadDir finds in each directory
    env,           \* outcomes of rand.Intn and of opening the file
    resp,          \* what the handler wrote to the ResponseWriter
    lastFileName,  \* part_001: var lastFileName string
    pc,            \* part_001: position of each concurrent handler
    randomFile,    \* part_001: each handler's local randomFile
    presp,         \* part_001: response of each handler
    served         \* part_001: the last two values stored in lastFileName

vars == <<config, req, fsys, env, resp, lastFileName, pc, randomFile, presp, served>>

-----------------------------------------------------------------------------
(* Bounds *)

MaxEntries == 3      \* most entries a listed directory holds
MaxList == 3         \* longest allow-list handed to handleCORS
NumProcs == 2        \* handlers running concurrently (part_001)

-----------------------------------------------------------------------------
(* Strings and paths *)

RECURSIVE Str(_)
\* a name (sequence of characters) as one string
Str(s) == IF s = <<>> THEN "" ELSE Head(s) \o Str(Tail(s))

RECURSIVE JoinStr(_, _)
\* the elements of a sequence of strings, sep between neighbours
JoinStr(xs, sep) ==
    IF xs = <<>> THEN ""
    ELSE IF Len(xs) = 1 THEN xs[1]
    ELSE xs[1] \o sep \o JoinStr(Tail(xs), sep)

\* fmt.Sprintf("%s", []string{...}): the elements separated by one space,
\* inside square brackets
Sprintf_s(xs) == "[" \o JoinStr(xs, " ") \o "]"

\* filepath.Clean on a relative path given by its elements: "." elements drop
Clean(elems) == SelectSeq(elems, LAMBDA e : e # ".")

\* filepath.Join(dir, name)
filepath_Join(dir, name) == JoinStr(Clean(dir \o <<Str(name)>>), "/")

RECURSIVE ExtFrom(_, _)
\* the loop of filepath.Ext: scan from the last character towards the first,
\* return the suffix starting at the first "." met, "" when none is met
ExtFrom(name, i) ==
    IF i < 1 THEN <<>>
    ELSE IF name[i] = "." THEN SubSeq(name, i, Len(name))
    ELSE ExtFrom(name, i - 1)

\* filepath.Ext(name)
filepath_Ext(name) == ExtFrom(name, Len(name))

-----------------------------------------------------------------------------
(* Response headers: a set of <<name, value>> pairs, one per name *)

HSet(h, k, v) == {p \in h : p[1] # k} \cup {<<k, v>>}
HHas(h, k) == \E p \in h : p[1] = k
HGet(h, k) == (CHOOSE p \in h : p[1] = k)[2]

ACAO == "Access-Control-Allow-Origin"
ACAM == "Access-Control-Allow-Methods"
ACAH == "Access-Control-Allow-Headers"
CacheControlValue == "no-store, no-cache, must-revalidate, proxy-revalidate"

StatusFound == 302
StatusForbidden == 403
StatusNotFound == 404
StatusInternalServerError == 500

-----------------------------------------------------------------------------
(* The helpers of main.go *)

RECURSIVE FirstMatch(_, _)
\* the loop of handleCORS over AllowedOrigins: the first entry that is "*"
\* or equals the request's Origin, "" when the loop ends without a match
FirstMatch(origins, origin) ==
    IF origins = <<>> THEN ""
    ELSE IF Head(origins) = "*" \/ Head(origins) = origin THEN Head(origins)
    ELSE FirstMatch(Tail(origins), origin)

\* handleCORS with the Allow-Headers header forgotten
handleCORS_noHeaders(h, r, c) ==
    IF c.CorsEnabled
    THEN LET h1 == HSet(h, ACAO, "*")
             m  == FirstMatch(c.AllowedOrigins, r.origin)
             h2 == IF Len(c.AllowedOrigins) > 0 /\ m # "" THEN HSet(h1, ACAO, m) ELSE h1
             h3 == HSet(h2, ACAM, "GET, POST")
         IN  IF Len(c.AllowedMethods) > 0
             THEN HSet(h3, ACAM, Sprintf_s(c.AllowedMethods)) ELSE h3
    ELSE h

handleCORS(h, r, c) ==
    IF c.CorsEnabled
    THEN LET h1 == HSet(h, ACAO, "*")
             m  == FirstMatch(c.AllowedOrigins, r.origin)
             h2 == IF Len(c.AllowedOrigins) > 0 /\ m # "" THEN HSet(h1, ACAO, m) ELSE h1
             h3 == HSet(h2, ACAM, "GET, POST")
             h4 == IF Len(c.AllowedMethods) > 0
                   THEN HSet(h3, ACAM, Sprintf_s(c.AllowedMethods)) ELSE h3
             h5 == HSet(h4, ACAH, "Content-Type, Authorization")
         IN  IF Len(c.AllowedHeaders) > 0
             THEN HSet(h5, ACAH, Sprintf_s(c.AllowedHeaders)) ELSE h5
    ELSE h

\* an extension check whose loop returns after its first iteration
isValidExtension_firstOnly(fileName, allowedExtensions) ==
    /\ Len(allowedExtensions) > 0
    /\ filepath_Ext(fileName) = allowedExtensions[1]

isValidExtension(fileName, allowedExtensions) ==
    \E i \in 1..Len(allowedExtensions) :
        filepath_Ext(fileName) = allowedExtensions[i]

validateReferer(r, allowedReferers) ==
    IF Len(allowedReferers) = 0 THEN TRUE
    ELSE \E i \in 1..Len(allowedReferers) : r.referer = allowedReferers[i]

\* the four no-cache headers, with Cache-Control left out
setNoCache_noCacheControl(h) ==
    HSet(HSet(HSet(h, "Expires", "0"), "Pragma", "no-cache"),
         "Surrogate-Control", "no-store")

\* w.Header().Set of Cache-Control, Expires, Pragma, Surrogate-Control
setNoCache(h) ==
    HSet(HSet(HSet(HSet(h, "Cache-Control", CacheControlValue),
                   "Expires", "0"), "Pragma", "no-cache"),
         "Surrogate-Control", "no-store")

-----------------------------------------------------------------------------
(* The file system as the handler sees it *)

File(n) == [name |-> n, isDir |-> FALSE]
Dir(n) == [name |-> n, isDir |-> TRUE]

\* the directory entries the model draws from, in the order os.ReadDir
\* returns them (sorted by file name, byte-wise)
EntryOrder ==
    << File(<<"R">>),                      \* no extension
       File(<<"a", ".", "J">>),            \* upper-case extension
       File(<<"a", ".", "j">>),
       File(<<"a", ".", "t", ".", "j">>),  \* two dots
       Dir(<<"d", ".", "j">>),             \* a directory named like an image
       File(<<"n", ".", "t">>) >>

EntryPool == {EntryOrder[i] : i \in 1..Len(EntryOrder)}

ImagesDir == <<".", "images">>
DogsDir == <<".", "images", "dogs">>

\* os.ReadDir(path): an error, or the entries sorted by file name
os_ReadDir(fs, path) ==
    IF path \notin DOMAIN fs \/ fs[path].err
    THEN [err |-> TRUE, files |-> <<>>]
    ELSE [err |-> FALSE,
          files |-> SelectSeq(EntryOrder, LAMBDA x : x \in fs[path].entries)]

\* the bytes of a file, told apart by where the file is
Bytes(path) == "bytes of " \o path

-----------------------------------------------------------------------------
(* net/http as the handler uses it *)

MsgForbidden == "access denied"
MsgDirError == "cannot read image directory"
MsgNoFiles == "no valid image found"

NoResp ==
    [status |-> 0, headers |-> {}, body |-> "", io |-> <<>>,
     validFiles |-> <<>>, selected |-> <<>>, branch |-> "none"]

\* http.Error(w, msg, code)
http_Error(w, msg, code) ==
    [w EXCEPT !.status = code,
              !.headers = HSet(HSet(w.headers, "Content-Type", "text/plain; charset=utf-8"),
                               "X-Content-Type-Options", "nosniff"),
              !.body = msg]

\* http.Redirect(w, r, url, code) for a GET request
http_Redirect(w, r, url, code) ==
    [w EXCEPT !.status = code,
              !.headers = HSet(HSet(w.headers, "Location", url),
                               "Content-Type", "text/html; charset=utf-8"),
              !.body = "Found"]

\* http.ServeFile(w, r, name) for a GET request without Range or
\* conditional headers: a request path ending in /index.html is redirected,
\* a file that cannot be opened is answered 404, 403 or 500 by the kind of
\* error, and otherwise the bytes are sent with status 200.
http_ServeFile(w, r, name, openErr) ==
    IF r.path = "/index.html"
    THEN [w EXCEPT !.status = 301,
                   !.headers = HSet(w.headers, "Location", "./")]
    ELSE LET w1 == [w EXCEPT !.io = Append(w.io, [op |-> "Open", path |-> name])]
         IN  IF openErr = "ENOENT" THEN http_Error(w1, "404 page not found", 404)
             ELSE IF openErr = "EACCES" THEN http_Error(w1, "403 Forbidden", 403)
             ELSE IF openErr # "" THEN http_Error(w1, "500 Internal Server Error", 500)
             ELSE [w1 EXCEPT !.status = 200,
                             !.headers = HSet(HSet(w1.headers, "Accept-Ranges", "bytes"),
                                              "Content-Length", "n"),
                             !.body = Bytes(name)]

-----------------------------------------------------------------------------
(* serveRandomImage of main.go *)

RECURSIVE filterValid(_, _)
\* the loop building validFiles
filterValid(files, c) ==
    IF files = <<>> THEN <<>>
    ELSE LET file == Head(files)
             rest == filterValid(Tail(files), c)
         IN  IF ~file.isDir /\ (c.DisableFileTypeCheck
                                \/ isValidExtension(file.name, c.AllowedExtensions))
             THEN <<file>> \o rest
             ELSE rest

\* the referer rejection
rejectReferer(w) ==
    [http_Error(w, MsgForbidden, StatusForbidden) EXCEPT !.branch = "forbidden"]

\* a listing failure that is answered as "not found"
dirError_notFound(w) ==
    [http_Error(w, MsgDirError, StatusNotFound) EXCEPT !.branch = "dirError"]

\* the answer to a failed os.ReadDir
dirError(w) ==
    [http_Error(w, MsgDirError, StatusInternalServerError) EXCEPT !.branch = "dirError"]

\* the answer to an empty validFiles
noFiles(w) ==
    [http_Error(w, MsgNoFiles, StatusNotFound) EXCEPT !.branch = "noFiles"]

\* the mode branch with its two arms exchanged
serveSelected_swapped(w, r, c, selectedFile, openErr) ==
    IF c.Mode # "redir"
    THEN [http_Redirect(w, r, "/" \o filepath_Join(c.ImageDir, selectedFile.name), StatusFound)
            EXCEPT !.branch = "redir"]
    ELSE [http_ServeFile(w, r, filepath_Join(c.ImageDir, selectedFile.name), openErr)
            EXCEPT !.branch = "serve"]

\* the branch on config.Mode
serveSelected(w, r, c, selectedFile, openErr) ==
    IF c.Mode = "redir"
    THEN [http_Redirect(w, r, "/" \o filepath_Join(c.ImageDir, selectedFile.name), StatusFound)
            EXCEPT !.branch = "redir"]
    ELSE [http_ServeFile(w, r, filepath_Join(c.ImageDir, selectedFile.name), openErr)
            EXCEPT !.branch = "serve"]

\* the whole handler; e.intn is what rand.Intn returns and e.openErr how
\* opening the selected file ends
serveRandomImage(r, c, fs, e) ==
    IF c.RefererRestriction /\ ~validateReferer(r, c.AllowedReferers)
    THEN rejectReferer(NoResp)
    ELSE
      LET w1 == [NoResp EXCEPT !.headers = setNoCache(handleCORS(NoResp.headers, r, c))]
          ls == os_ReadDir(fs, c.ImageDir)
          w2 == [w1 EXCEPT !.io = Append(w1.io, [op |-> "ReadDir",
                                                 path |-> JoinStr(c.ImageDir, "/")])]
      IN  IF ls.err THEN dirError(w2)
          ELSE
            LET validFiles == filterValid(ls.files, c)
                w3 == [w2 EXCEPT !.validFiles = validFiles]
            IN  IF Len(validFiles) = 0 THEN noFiles(w3)
                ELSE
                  LET selectedFile == validFiles[e.intn + 1]
                      w4 == [w3 EXCEPT !.selected = <<selectedFile>>]
                  IN  serveSelected(w4, r, c, selectedFile, e.openErr)

-----------------------------------------------------------------------------
(* Inputs *)

ExtJ == <<".", "j">>
ExtT == <<".", "t">>

NoMapping == [k \in {} |-> DogsDir]
DogsMapping == [k \in {"dogs"} |-> DogsDir]

RefA == "https://a.com"
RefB == "https://b.com"

\* the configurations main loads for the handler of main.go
Configs ==
    [ ImageDir : {ImagesDir},
      AllowedExtensions : {<<ExtJ>>, <<ExtT, ExtJ>>},
      DisableFileTypeCheck : BOOLEAN,
      CorsEnabled : BOOLEAN,
      AllowedOrigins : {<<"*">>},
      AllowedMethods : {<<"GET", "POST", "OPTIONS">>},
      AllowedHeaders : {<<>>},
      Mode : {"direct", "redir"},
      ParamRedirects : {NoMapping, DogsMapping},
      RefererRestriction : BOOLEAN,
      AllowedReferers : {<<>>, <<RefA>>} ]

Requests ==
    [ referer : {"", RefA, RefB},
      origin : {RefA},
      source : {"", "dogs"},
      path : {"/", "/index.html"} ]

DirStates ==
    {[err |-> TRUE, entries |-> {}]}
    \cup {[err |-> FALSE, entries |-> S] :
            S \in {T \in SUBSET EntryPool : Cardinality(T) <= MaxEntries}}

DogsState == [err |-> FALSE, entries |-> {File(<<"a", ".", "j">>)}]

FileSystems ==
    {[d \in {ImagesDir, DogsDir} |-> IF d = ImagesDir THEN ds ELSE DogsState] :
        ds \in DirStates}

OpenErrs == {"", "ENOENT", "EACCES", "EIO"}

Envs == [intn : 0..(MaxEntries - 1), openErr : OpenErrs]

NoReq == [referer |-> "", origin |-> "", source |-> "", path |-> ""]
NoEnv == [intn |-> 0, openErr |-> ""]
EmptyFs == [d \in {ImagesDir, DogsDir} |-> [err |-> FALSE, entries |-> {}]]

\* part_001's variables while the handler of main.go is the one running
LastIdle ==
    /\ lastFileName = <<>>
    /\ pc = [p \in 1..NumProcs |-> "idle"]
    /\ randomFile = [p \in 1..NumProcs |-> <<>>]
    /\ presp = [p \in 1..NumProcs |-> NoResp]
    /\ served = <<>>

-----------------------------------------------------------------------------
(* The server of main.go: one request after another, each handled whole.   *)
(* Handlers share nothing but the read-only config, so their interleaving  *)
(* adds no behaviour.                                                      *)

Init ==
    /\ config \in Configs
    /\ req = NoReq
    /\ fsys = EmptyFs
    /\ env = NoEnv
    /\ resp = NoResp
    /\ LastIdle

\* the number of files rand.Intn draws among, 0 when the handler returns
\* before drawing
Candidates(r, c, fs) ==
    IF c.RefererRestriction /\ ~validateReferer(r, c.AllowedReferers) THEN 0
    ELSE Len(filterValid(os_ReadDir(fs, c.ImageDir).files, c))

\* a request arrives and is handled to its response
Handle ==
    /\ resp = NoResp
    /\ \E r \in Requests, fs \in FileSystems, e \in Envs :
        /\ e.intn = 0 \/ e.intn < Candidates(r, config, fs)
        /\ LET w == serveRandomImage(r, config, fs, e)
           IN  /\ e.openErr = "" \/ (w.branch = "serve" /\ r.path = "/")
               /\ resp' = w
        /\ req' = r
        /\ fsys' = fs
        /\ env' = e
    /\ UNCHANGED <<config, lastFileName, pc, randomFile, presp, served>>

\* the response is sent and the server waits for the next request
Finish ==
    /\ resp # NoResp
    /\ req' = NoReq
    /\ fsys' = EmptyFs
    /\ env' = NoEnv
    /\ resp' = NoResp
    /\ UNCHANGED <<config, lastFileName, pc, randomFile, presp, served>>

Next == Handle \/ Finish

Spec == Init /\ [][Next]_vars

-----------------------------------------------------------------------------
(* handleCORS on its own, over wider allow-lists *)

Prefixes(xs) == {SubSeq(xs, 1, n) : n \in 0..(IF MaxList < Len(xs) THEN MaxList ELSE Len(xs))}

CorsConfigs ==
    [ ImageDir : {ImagesDir},
      AllowedExtensions : {<<ExtJ>>},
      DisableFileTypeCheck : {FALSE},
      CorsEnabled : BOOLEAN,
      AllowedOrigins : {<<>>, <<"*">>, <<RefB>>, <<RefA, "*">>, <<"*", RefA>>},
      AllowedMethods : Prefixes(<<"GET", "POST", "OPTIONS", "PUT", "DELETE">>),
      AllowedHeaders : Prefixes(<<"Content-Type", "Authorization", "*", "Accept", "X-Id">>),
      Mode : {"direct"},
      ParamRedirects : {NoMapping},
      RefererRestriction : {FALSE},
      AllowedReferers : {<<>>} ]

InitCors ==
    /\ config \in CorsConfigs
    /\ req = NoReq
    /\ fsys = EmptyFs
    /\ env = NoEnv
    /\ resp = NoResp
    /\ LastIdle

\* handleCORS(w, r, config) on a fresh ResponseWriter
ApplyCORS ==
    /\ resp = NoResp
    /\ \E o \in {"", RefA, RefB} :
        LET r == [NoReq EXCEPT !.origin = o, !.path = "/"]
        IN  /\ req' = r
            /\ resp' = [NoResp EXCEPT !.headers = handleCORS(NoResp.headers, r, config),
                                      !.branch = "cors"]
    /\ UNCHANGED <<config, fsys, env, lastFileName, pc, randomFile, presp, served>>

NextCors == ApplyCORS

SpecCors == InitCors /\ [][NextCors]_vars

-----------------------------------------------------------------------------
(* The revision with lastFileName (src/unnamed/part_001).  Each handler    *)
(* runs in its own goroutine; the steps below are cut at the reads and     *)
(* writes of the shared lastFileName.                                      *)

Procs == 1..NumProcs

\* the Config of this revision
LastConfigs ==
    [ ImageDir : {ImagesDir},
      AllowedExtensions : {<<ExtJ>>},
      DisableFileTypeCheck : BOOLEAN,
      FaviconPath : {<<".", "assets", "favicon.ico">>},
      CorsEnabled : {TRUE},
      AllowedOrigins : {<<"*">>},
      AllowedMethods : {<<>>},
      AllowedHeaders : {<<>>} ]

LastPool == {File(<<"R">>), File(<<"a", ".", "j">>), File(<<"a", ".", "t", ".", "j">>),
             Dir(<<"d", ".", "j">>)}

LastDirStates ==
    {[err |-> TRUE, entries |-> {}]}
    \cup {[err |-> FALSE, entries |-> S] :
            S \in {T \in SUBSET LastPool : Cardinality(T) <= MaxEntries}}

LastOpenErrs == {"", "EIO"}

LastReq == [NoReq EXCEPT !.path = "/"]

\* serveFavicon of this revision
serveFavicon(w, r, faviconPath, openErr) ==
    LET name == JoinStr(faviconPath, "/")
        w1 == [w EXCEPT !.io = Append(w.io, [op |-> "Open", path |-> name])]
    IN  IF openErr # ""
        THEN [http_Error(w1, "cannot open favicon", StatusInternalServerError)
                EXCEPT !.branch = "favicon"]
        ELSE [http_ServeFile(w1, r, name, "") EXCEPT !.branch = "favicon"]

\* serveImageFile
serveImageFile(w, r, imageDir, fileName, openErr) ==
    LET imagePath == filepath_Join(imageDir, fileName)
        w1 == [w EXCEPT !.io = Append(w.io, [op |-> "Open", path |-> imagePath])]
    IN  IF openErr # ""
        THEN [http_Error(w1, "cannot open image", StatusInternalServerError)
                EXCEPT !.branch = "serve"]
        ELSE [http_ServeFile(w1, r, imagePath, "") EXCEPT !.branch = "serve"]

\* the head of the handler: CORS and no-cache headers, then the listing
LastHeaders(c) == [NoResp EXCEPT !.headers = setNoCache(handleCORS(NoResp.headers, LastReq, c))]
LastListing == os_ReadDir(fsys, config.ImageDir)
LastValid == filterValid(LastListing.files, config)

InitLast ==
    /\ config \in LastConfigs
    /\ fsys \in {[d \in {ImagesDir} |-> ds] : ds \in LastDirStates}
    /\ req = NoReq
    /\ env = NoEnv
    /\ resp = NoResp
    /\ lastFileName = <<>>
    /\ pc = [p \in Procs |-> "idle"]
    /\ randomFile = [p \in Procs |-> <<>>]
    /\ presp = [p \in Procs |-> NoResp]
    /\ served = <<>>

Static == UNCHANGED <<config, fsys, req, env, resp>>

\* GET /favicon.ico
Favicon(p) ==
    /\ pc[p] = "idle"
    /\ \E oe \in LastOpenErrs :
         presp' = [presp EXCEPT ![p] =
                     serveFavicon(LastHeaders(config), [LastReq EXCEPT !.path = "/favicon.ico"],
                                  config.FaviconPath, oe)]
    /\ UNCHANGED <<pc, randomFile, lastFileName, served>>
    /\ Static

\* os.ReadDir fails
ListFails(p) ==
    /\ pc[p] = "idle"
    /\ LastListing.err
    /\ presp' = [presp EXCEPT ![p] =
                   dirError([LastHeaders(config) EXCEPT
                               !.io = <<[op |-> "ReadDir", path |-> JoinStr(config.ImageDir, "/")]>>])]
    /\ UNCHANGED <<pc, randomFile, lastFileName, served>>
    /\ Static

\* the working ResponseWriter after a listing that succeeded
Listed1(c) ==
    [LastHeaders(c) EXCEPT
        !.io = <<[op |-> "ReadDir", path |-> JoinStr(c.ImageDir, "/")]>>,
        !.validFiles = LastValid]

\* len(validFiles) == 0
NoFiles(p) ==
    /\ pc[p] = "idle"
    /\ ~LastListing.err
    /\ Len(LastValid) = 0
    /\ presp' = [presp EXCEPT ![p] = noFiles(Listed1(config))]
    /\ UNCHANGED <<pc, randomFile, lastFileName, served>>
    /\ Static

\* len(validFiles) == 1: the file is served, the store to lastFileName follows
Single(p) ==
    /\ pc[p] = "idle"
    /\ ~LastListing.err
    /\ Len(LastValid) = 1
    /\ \E oe \in LastOpenErrs :
         presp' = [presp EXCEPT ![p] =
                     serveImageFile([Listed1(config) EXCEPT !.selected = <<LastValid[1]>>],
                                    LastReq, config.ImageDir, LastValid[1].name, oe)]
    /\ randomFile' = [randomFile EXCEPT ![p] = LastValid[1].name]
    /\ pc' = [pc EXCEPT ![p] = "store1"]
    /\ UNCHANGED <<lastFileName, served>>
    /\ Static

\* lastFileName = validFiles[0].Name()
Store1(p) ==
    /\ pc[p] = "store1"
    /\ lastFileName' = randomFile[p]
    /\ served' = IF served = <<>> THEN <<randomFile[p]>>
                 ELSE <<served[Len(served)], randomFile[p]>>
    /\ randomFile' = [randomFile EXCEPT ![p] = <<>>]
    /\ pc' = [pc EXCEPT ![p] = "idle"]
    /\ UNCHANGED presp
    /\ Static

\* two or more files: the handler enters the loop
Begin(p) ==
    /\ pc[p] = "idle"
    /\ ~LastListing.err
    /\ Len(LastValid) >= 2
    /\ presp' = [presp EXCEPT ![p] = Listed1(config)]
    /\ pc' = [pc EXCEPT ![p] = "draw"]
    /\ UNCHANGED <<randomFile, lastFileName, served>>
    /\ Static

\* randomFile = validFiles[rand.Intn(len(validFiles))], the draw being i
Draw(p, i) ==
    /\ pc[p] = "draw"
    /\ i < Len(LastValid)
    /\ randomFile' = [randomFile EXCEPT ![p] = LastValid[i + 1].name]
    /\ pc' = [pc EXCEPT ![p] = "compare"]
    /\ UNCHANGED <<presp, lastFileName, served>>
    /\ Static

\* what an unsynchronised read of lastFileName may return: the value stored
\* last, or the value a concurrent handler is storing at this moment
RacyRead(p) ==
    {lastFileName} \cup {randomFile[q] : q \in {x \in Procs : x # p /\ pc[x] \in {"store", "store1"}}}

\* if randomFile.Name() != lastFileName { break }
Compare(p) ==
    /\ pc[p] = "compare"
    /\ \E seen \in RacyRead(p) :
         pc' = [pc EXCEPT ![p] = IF randomFile[p] # seen THEN "store" ELSE "draw"]
    /\ UNCHANGED <<randomFile, presp, lastFileName, served>>
    /\ Static

\* lastFileName = randomFile.Name(), then serveImageFile
Store(p) ==
    /\ pc[p] = "store"
    /\ lastFileName' = randomFile[p]
    /\ served' = IF served = <<>> THEN <<randomFile[p]>>
                 ELSE <<served[Len(served)], randomFile[p]>>
    /\ \E oe \in LastOpenErrs :
         presp' = [presp EXCEPT ![p] =
                     serveImageFile([presp[p] EXCEPT !.selected = <<File(randomFile[p])>>],
                                    LastReq, config.ImageDir, randomFile[p], oe)]
    /\ randomFile' = [randomFile EXCEPT ![p] = <<>>]
    /\ pc' = [pc EXCEPT ![p] = "idle"]
    /\ Static

\* the steps of a handler that is under way
Proceed(p) ==
    \/ \E i \in 0..(MaxEntries - 1) : Draw(p, i)
    \/ Compare(p)
    \/ Store(p)
    \/ Store1(p)

NextLast ==
    \E p \in Procs :
        \/ Favicon(p)
        \/ ListFails(p)
        \/ NoFiles(p)
        \/ Single(p)
        \/ Begin(p)
        \/ Proceed(p)

SpecLast == InitLast /\ [][NextLast]_vars

\* the goroutine scheduler lets every handler under way take its next step,
\* and rand.Intn returns every index again and again
FairLast ==
    /\ SpecLast
    /\ \A p \in Procs : WF_vars(Proceed(p))
    /\ \A p \in Procs : \A i \in 0..(MaxEntries - 1) : SF_vars(Draw(p, i))

-----------------------------------------------------------------------------
(* What the claims speak of *)

Range(f) == {f[i] : i \in DOMAIN f}

Responded == resp # NoResp

\* the request was turned away by the referer check
Rejected == resp.branch = "forbidden"

\* the extension of a name as the specification words it: the part from the
\* last "." on, the dot included; empty when the name has no "."
SpecExt(name) ==
    LET dots == {i \in 1..Len(name) : name[i] = "."}
    IN  IF dots = {} THEN <<>>
        ELSE LET last == CHOOSE i \in dots : \A j \in dots : j <= i
             IN  [k \in 1..(Len(name) - last + 1) |-> name[last + k - 1]]

\* the candidate set the specification prescribes for a directory content
SpecCandidates(entries, c) ==
    {x \in entries :
        /\ ~x.isDir
        /\ c.DisableFileTypeCheck \/ SpecExt(x.name) \in Range(c.AllowedExtensions)}

\* the directory the specification prescribes for a request
EffectiveDir(r, c) ==
    IF r.source # "" /\ r.source \in DOMAIN c.ParamRedirects
    THEN c.ParamRedirects[r.source]
    ELSE c.ImageDir

Listed == {resp.io[i].path : i \in {j \in 1..Len(resp.io) : resp.io[j].op = "ReadDir"}}
Opened == {resp.io[i].path : i \in {j \in 1..Len(resp.io) : resp.io[j].op = "Open"}}

HasCors ==
    /\ HHas(resp.headers, ACAO)
    /\ HHas(resp.headers, ACAM)
    /\ HHas(resp.headers, ACAH)

-----------------------------------------------------------------------------
(* C1: with the referer check enabled, a request whose Referer equals no   *)
(* entry of allowed_referers (an empty list included) is answered 403 and  *)
(* the handler lists no directory and opens no file.                       *)
C1_ForbiddenWithoutIO ==
    (Responded /\ config.RefererRestriction
       /\ req.referer \notin Range(config.AllowedReferers))
    => (resp.status = StatusForbidden /\ resp.io = <<>>)

(* C2: the directory the handler lists is the mapped path when the source  *)
(* parameter is a key of the mapping, the default image directory if not.  *)
C2_ListsEffectiveDir ==
    (Responded /\ ~Rejected)
    => Listed = {JoinStr(EffectiveDir(req, config), "/")}

(* C3, as stated: with CORS enabled every response, the 403 included,      *)
(* carries the three Access-Control-Allow headers.                         *)
C3_CorsOnEveryResponse ==
    (Responded /\ config.CorsEnabled) => HasCors

(* C3, amended: with CORS enabled every response except the 403 of the     *)
(* referer rejection carries the three Access-Control-Allow headers; the   *)
(* rejection carries none of them.                                         *)
C3_CorsUnlessRejected ==
    (Responded /\ config.CorsEnabled)
    => IF Rejected
       THEN ~HHas(resp.headers, ACAO) /\ ~HHas(resp.headers, ACAM)
            /\ ~HHas(resp.headers, ACAH)
       ELSE HasCors

C3_Witness ==
    /\ Responded /\ config.CorsEnabled
    /\ resp.status = StatusNotFound /\ resp.branch = "noFiles"
    /\ HasCors

(* C4: the candidate set is exactly the non-directory entries whose        *)
(* extension is allowed (all non-directory entries under the bypass flag)  *)
(* and the selected file is one of the candidates.                         *)
C4_CandidateSet ==
    (Responded /\ ~Rejected /\ ~fsys[config.ImageDir].err)
    => /\ Range(resp.validFiles) = SpecCandidates(fsys[config.ImageDir].entries, config)
       /\ Len(resp.validFiles) = Cardinality(Range(resp.validFiles))
       /\ resp.validFiles # <<>> =>
            (Len(resp.selected) = 1 /\ resp.selected[1] \in Range(resp.validFiles))

C4_Witness ==
    /\ Responded /\ ~config.DisableFileTypeCheck
    /\ Len(resp.validFiles) = 2
    /\ Cardinality(fsys[config.ImageDir].entries) = 3
    /\ File(<<"a", ".", "t", ".", "j">>) \in Range(resp.validFiles)
    /\ File(<<"a", ".", "J">>) \in fsys[config.ImageDir].entries
    /\ resp.selected = <<resp.validFiles[2]>>

C7_ListingErrors ==
    (Responded /\ ~Rejected)
    => LET d == fsys[config.ImageDir]
           stopped == /\ resp.selected = <<>>
                      /\ Opened = {}
                      /\ ~HHas(resp.headers, "Location")
       IN  /\ d.err => (resp.status = StatusInternalServerError /\ stopped)
           /\ (~d.err /\ SpecCandidates(d.entries, config) = {}) =>
                (resp.status = StatusNotFound /\ stopped)

C7_Witness ==
    /\ Responded /\ ~Rejected
    /\ fsys[config.ImageDir].err
    /\ resp.status = StatusInternalServerError
    /\ resp.selected = <<>>

(* C8: every successful response (200 or 302) carries                      *)
(* Cache-Control: no-store, no-cache, must-revalidate, proxy-revalidate.   *)
C8_CacheControl ==
    (Responded /\ resp.status \in {200, StatusFound})
    => (HHas(resp.headers, "Cache-Control")
        /\ HGet(resp.headers, "Cache-Control") = CacheControlValue)

C8_Witness ==
    /\ Responded /\ resp.status = 200 /\ resp.branch = "serve"
    /\ <<"Cache-Control", CacheControlValue>> \in resp.headers

-----------------------------------------------------------------------------
(* C5: with CORS enabled, Allow-Methods is the comma-joined allowed_methods *)
(* (default "GET, POST" when the list is empty) and Allow-Headers the       *)
(* comma-joined allowed_headers (default "Content-Type, Authorization").    *)
C5_CommaJoined ==
    (resp.branch = "cors" /\ config.CorsEnabled)
    => /\ HHas(resp.headers, ACAM)
       /\ HGet(resp.headers, ACAM) =
            (IF config.AllowedMethods # <<>>
             THEN JoinStr(config.AllowedMethods, ", ") ELSE "GET, POST")
       /\ HHas(resp.headers, ACAH)
       /\ HGet(resp.headers, ACAH) =
            (IF config.AllowedHeaders # <<>>
             THEN JoinStr(config.AllowedHeaders, ", ") ELSE "Content-Type, Authorization")

(* C9: while the candidate set holds two or more files, no two consecutive *)
(* stores to lastFileName store the same name, whatever the interleaving.  *)
C9_NoImmediateRepeat ==
    (Len(LastValid) >= 2 /\ Len(served) = 2) => served[1] # served[2]

(* C10: with two or more candidates, a handler inside the retry loop       *)
(* eventually leaves it and responds, under fair random choice, whatever   *)
(* the other handlers store in lastFileName meanwhile.                     *)
C10_LoopExits ==
    \A p \in Procs : (pc[p] \in {"draw", "compare"}) ~> (pc[p] = "idle")

====
